---- MODULE Spec2Model ----
(***************************************************************************)
(* A model of vitasync.py: the listing parser, the directory probe, the    *)
(* remote walks, the merge of staging trees into the merged folder and     *)
(* the run driven by main().                                               *)
(*                                                                         *)
(* Local trees are records [dirs, files]: dirs is the set of directory     *)
(* paths that exist (a path is a sequence of names, << >> is the root of   *)
(* the tree, an absent tree has dirs = {}), files maps each file path to   *)
(* [content, mtime].  Entries named in FileNames are always regular files  *)
(* and entries named in DirNames are always directories, so a path never   *)
(* names a file in one tree and a directory in another.                    *)
(*                                                                         *)
(* Spec is main() run once or more on one or two servers.  The other       *)
(* specifications call single functions on inputs drawn from bounded sets: *)
(* SpecMerge (merge_directories), SpecList (list_directory_with_details),  *)
(* SpecProbe (is_directory, count_files, download_directory on a session   *)
(* in any directory) and SpecSync (download_directory, merge_directories   *)
(* and upload_directory in any order on one endpoint).  A function that    *)
(* raises is recorded with the exception's name as its status.             *)
(***************************************************************************)
EXTENDS Integers, Sequences, FiniteSets, TLC

\* ------------------------------------------------------------------ bounds
MaxTime == 3        \* modification times are 1..MaxTime (0 is epoch-zero)
MaxOps == 2         \* calls recorded in one behaviour of the call-level specs
MaxLines == 3       \* lines in one LIST response of SpecList
MaxRunTime == 2     \* modification times in the trees of SpecProbe, SpecSync, Spec
MaxCalls == 3       \* calls in one behaviour of SpecSync
MaxRuns == 2        \* runs of main() in one behaviour of Spec
MaxFault == 4       \* a rejected command is one of the first MaxFault of a call

Endpoints == {1, 2}
FileNames == {"f"}
DirNames == {"d"}
FilePaths == {<<"f">>, <<"d", "f">>}
DirPaths == {<< >>, <<"d">>}

\* ------------------------------------------------------------- local trees
Parent(p) == SubSeq(p, 1, Len(p) - 1)
Prefixes(p) == {SubSeq(p, 1, k) : k \in 0..Len(p)}
EmptyFiles == [p \in {} |-> 0]
NoTree == [dirs |-> {}, files |-> EmptyFiles]
EmptyTree == [dirs |-> {<< >>}, files |-> EmptyFiles]

WellFormed(t) == \A p \in DOMAIN t.files : Parent(p) \in t.dirs

\* Every local tree over FilePaths whose files all carry content c and a
\* modification time in 1..maxt.
TreesUpTo(c, maxt) ==
    {[dirs |-> ds, files |-> fs] :
        ds \in {{}, {<< >>}, DirPaths},
        fs \in UNION {[ps -> [content : {c}, mtime : 1..maxt]] :
                         ps \in SUBSET FilePaths}}

LocalTrees(c) == TreesUpTo(c, MaxTime)
SmallTrees(c) == {t \in TreesUpTo(c, MaxRunTime) : WellFormed(t)}


\* ------------------------------------------------------------ Merge Engine
\* Variants of the test of line 194: no test, the comparison reversed, and the
\* comparison not strict.
ShouldCopyAlways(source, target, p) == TRUE
ShouldCopyOlder(source, target, p) ==
    \/ p \notin DOMAIN target.files
    \/ source.files[p].mtime < target.files[p].mtime
ShouldCopyNotOlder(source, target, p) ==
    \/ p \notin DOMAIN target.files
    \/ source.files[p].mtime >= target.files[p].mtime
\* The test of line 194: the target is absent or the source is strictly newer.
ShouldCopy(source, target, p) ==
    \/ p \notin DOMAIN target.files
    \/ source.files[p].mtime > target.files[p].mtime

\* shutil.copy2: content and modification time of the source file.
copy2(source, target, p) ==
    [target EXCEPT !.files = (p :> source.files[p]) @@ target.files]

\* os.makedirs(target_root, exist_ok=True)
makedirs(target, root) == [target EXCEPT !.dirs = target.dirs \cup Prefixes(root)]

\* The inner loop of lines 190-196 over the files of one source directory.
RECURSIVE MergeFiles(_, _, _)
MergeFiles(todo, source, acc) ==
    IF todo = {} THEN acc
    ELSE LET p == CHOOSE q \in todo : TRUE
             next == IF ShouldCopy(source, acc.tree, p)
                     THEN [tree |-> copy2(source, acc.tree, p),
                           copied |-> acc.copied \cup {p}]
                     ELSE acc
         IN MergeFiles(todo \ {p}, source, next)

\* The outer loop of lines 185-188: os.walk visits a directory before its
\* subdirectories.
RECURSIVE MergeWalk(_, _, _)
MergeWalk(todo, source, acc) ==
    IF todo = {} THEN acc
    ELSE LET root == CHOOSE d \in todo : \A e \in todo : Len(d) <= Len(e)
             made == [acc EXCEPT !.tree = makedirs(acc.tree, root)]
             here == {p \in DOMAIN source.files : Parent(p) = root}
         IN MergeWalk(todo \ {root}, source, MergeFiles(here, source, made))

\* A mirror copy: the target becomes the source tree.
merge_mirror(source, target) ==
    [tree |-> IF source.dirs = {} THEN target ELSE source,
     copied |-> DOMAIN source.files]
\* merge_directories(source, target, progress): the resulting target tree and
\* the set of paths copied.  os.walk of a missing source yields nothing.
merge_directories(source, target) ==
    MergeWalk(source.dirs, source, [tree |-> target, copied |-> {}])

\* --------------------------------------------------------- Listing Resolver
\* A raw listing line is a sequence of tokens; " " is a run of whitespace.
split(line) == SelectSeq(line, LAMBDA t : t # " ")

\* The %H:%M texts the model's servers print, by the time they stand for.
Clock == <<"00:01", "00:02", "00:03", "00:04", "00:05", "00:06">>
MonthNames == {"Jan"}
DayTexts == {"01"}

\* time.strptime(text, "%b %d %H:%M") raises ValueError unless the three fields
\* are a month name, a day and an hour:minute text.
strptime_ok(mon, day, hm) ==
    mon \in MonthNames /\ day \in DayTexts /\ \E k \in 1..Len(Clock) : Clock[k] = hm

\* The format of line 19 has no year, so strptime puts the fields in the year
\* 1900: 1 Jan 1900 00:00 in minutes from the epoch (-2208988800 seconds).
Year1900 == -36816480

\* time.mktime of the parsed fields, in minutes: a time in 1900, below the 0
\* of line 22 and equal to no file's own modification time.
mktime(mon, day, hm) == Year1900 + (CHOOSE k \in 1..Len(Clock) : Clock[k] = hm)

Put(items, name, mtime) ==
    [names |-> IF name \in DOMAIN items.mtime THEN items.names
               ELSE Append(items.names, name),
     mtime |-> (name :> mtime) @@ items.mtime]

\* parse_line (lines 14-22): the snapshot after one more line.
parse_line(items, line) ==
    LET parts == split(line) IN
    IF Len(parts) >= 9
    THEN LET filename == parts[Len(parts)]
         IN IF strptime_ok(parts[6], parts[7], parts[8])
            THEN Put(items, filename, mktime(parts[6], parts[7], parts[8]))
            ELSE Put(items, filename, 0)
    ELSE items

NoItems == [names |-> << >>, mtime |-> [n \in {} |-> 0]]

\* A listing that ends at the first line it cannot parse.
RECURSIVE retrlines_abort(_, _)
retrlines_abort(lines, items) ==
    IF lines = << >> \/ Len(split(Head(lines))) < 9 THEN items
    ELSE retrlines_abort(Tail(lines), parse_line(items, Head(lines)))
\* ftp.retrlines('LIST', parse_line): the callback runs on every line in turn.
RECURSIVE retrlines(_, _)
retrlines(lines, items) ==
    IF lines = << >> THEN items
    ELSE retrlines(Tail(lines), parse_line(items, Head(lines)))

\* list_directory_with_details(ftp), given the server's answer to LIST: a
\* rejected LIST leaves the snapshot empty.
list_directory_with_details(resp) ==
    IF resp.rejected THEN NoItems ELSE retrlines(resp.lines, NoItems)

\* The lines a server prints.  Spaced puts whitespace between the fields.
RECURSIVE Spaced(_)
Spaced(fields) ==
    IF Len(fields) <= 1 THEN fields
    ELSE <<Head(fields), " ">> \o Spaced(Tail(fields))

Listed(name, hm) == Spaced(<<"-rw-r--r--", "1", "o", "g", "0", "Jan", "01", hm, name>>)
ListedDir(name) == Spaced(<<"drwxr-xr-x", "1", "o", "g", "0", "Jan", "01", Clock[1], name>>)
Garbled(name) == Spaced(<<"-rw-r--r--", "1", "o", "g", "0", "Jan", name>>)

SampleLines ==
    {Listed("f", Clock[1]),
     Listed("g", Clock[2]),
     Listed("f", "1970"),
     Garbled("g"),
     Garbled("h"),
     <<" ">> \o Listed("my", Clock[3]) \o <<" ", "f", " ">>}

RECURSIVE SeqsUpTo(_, _)
SeqsUpTo(S, n) ==
    IF n = 0 THEN {<< >>}
    ELSE LET shorter == SeqsUpTo(S, n - 1)
         IN shorter \cup {Append(q, x) : q \in {r \in shorter : Len(r) = n - 1}, x \in S}

\* ------------------------------------------------------- the FTP session
\* remote_dir of main(), "ux0:/user/00/savedata": a path of more than one
\* component below the directory a session starts in.
RemoteDir == <<"ux0", "savedata">>
LoginDir == << >>

\* The remote tree that holds local tree t under RemoteDir (no RemoteDir at
\* all when t is absent).
RemoteOf(t) ==
    [dirs |-> Prefixes(Parent(RemoteDir)) \cup {RemoteDir \o d : d \in t.dirs},
     files |-> [q \in {RemoteDir \o p : p \in DOMAIN t.files} |->
                   t.files[SubSeq(q, Len(RemoteDir) + 1, Len(q))]]]

RemoteTrees(c) == {RemoteOf(t) : t \in SmallTrees(c)}

\* The same, where a file may also carry a modification time the server
\* prints as a year instead of hour:minute (0).
StaleTrees(c) ==
    {RemoteOf(t) :
        t \in {u \in [dirs : {{}, {<< >>}, DirPaths},
                       files : UNION {[ps -> [content : {c}, mtime : 0..MaxRunTime]] :
                                         ps \in SUBSET FilePaths}] :
                  WellFormed(u)}}

\* The order in which a server lists, and os.listdir returns, the names.
Orders == {<<"d", "f", "savedata", "ux0">>, <<"f", "d", "savedata", "ux0">>}

\* An argument of CWD or MKD: absolute or relative, ".." climbs.
Rel(comps) == [abs |-> FALSE, comps |-> comps]
Abs(comps) == [abs |-> TRUE, comps |-> comps]

RECURSIVE Climb(_, _)
Climb(base, comps) ==
    IF comps = << >> THEN base
    ELSE IF Head(comps) = ".."
         THEN Climb(IF base = << >> THEN base ELSE Parent(base), Tail(comps))
         ELSE Climb(Append(base, Head(comps)), Tail(comps))

Resolve(cwd, arg) == Climb(IF arg.abs THEN << >> ELSE cwd, arg.comps)

\* A session: the server's tree, the working directory, the number of commands
\* sent so far, the ordinals of the commands the server rejects, the order in
\* which it lists names, and the remote paths written by STOR so far.  Two
\* records of what upload_directory did on it: tried holds, for every STOR
\* sent, the local file, the working directory at that moment and whether the
\* server accepted it; resumed holds, for every recursive call that returned,
\* the remote_dir of the caller and the working directory at the return.
Session(tree, cwd, rej, order) ==
    [tree |-> tree, cwd |-> cwd, n |-> 0, rej |-> rej, order |-> order,
     stored |-> << >>, tried |-> << >>, resumed |-> << >>]

Sent(s) == [s EXCEPT !.n = s.n + 1]
Rejects(s) == (s.n + 1) \in s.rej

\* ftp.cwd(path): error_perm when rejected or when path is no directory.
ftp_cwd(s, arg) ==
    LET target == Resolve(s.cwd, arg) IN
    IF Rejects(s) \/ target \notin s.tree.dirs
    THEN [ok |-> FALSE, s |-> Sent(s)]
    ELSE [ok |-> TRUE, s |-> [Sent(s) EXCEPT !.cwd = target]]

\* ftp.pwd()
ftp_pwd(s) == [ok |-> ~Rejects(s), s |-> Sent(s), path |-> Abs(s.cwd)]

\* The time field a server prints for a modification time.
PrintTime(t) == IF t \in 1..Len(Clock) THEN Clock[t] ELSE "1970"

RECURSIVE ServerLines(_, _, _)
ServerLines(tree, cwd, order) ==
    IF order = << >> THEN << >>
    ELSE LET q == Append(cwd, Head(order))
             rest == ServerLines(tree, cwd, Tail(order))
         IN IF q \in tree.dirs THEN <<ListedDir(Head(order))>> \o rest
            ELSE IF q \in DOMAIN tree.files
                 THEN <<Listed(Head(order), PrintTime(tree.files[q].mtime))>> \o rest
                 ELSE rest

\* The server's answer to LIST in the working directory.
ftp_list(s) ==
    [rejected |-> Rejects(s), lines |-> ServerLines(s.tree, s.cwd, s.order),
     s |-> Sent(s)]

\* is_directory(ftp, item), lines 31-39: the session afterwards, the value
\* returned, and "error_perm" when the PWD outside the try is rejected.
is_directory(s, item) ==
    LET here == ftp_pwd(s) IN
    IF ~here.ok THEN [s |-> here.s, ret |-> FALSE, status |-> "error_perm"]
    ELSE LET into == ftp_cwd(here.s, Rel(<<item>>)) IN
         IF ~into.ok THEN [s |-> into.s, ret |-> FALSE, status |-> "returned"]
         ELSE LET back == ftp_cwd(into.s, here.path)
              IN [s |-> back.s, ret |-> back.ok, status |-> "returned"]

\* count_files(ftp, remote_dir), lines 42-59, and its loop over the snapshot.
RECURSIVE count_files(_, _)
RECURSIVE CountLoop(_, _, _)
CountLoop(s, names, total) ==
    IF names = << >> THEN [s |-> s, ret |-> total, status |-> "returned"]
    ELSE LET probe == is_directory(s, Head(names)) IN
         IF probe.status # "returned"
         THEN [s |-> probe.s, ret |-> total, status |-> probe.status]
         ELSE IF probe.ret
              THEN LET sub == count_files(probe.s, Rel(<<Head(names)>>)) IN
                   IF sub.status # "returned" THEN sub
                   ELSE CountLoop(sub.s, Tail(names), total + sub.ret)
              ELSE CountLoop(probe.s, Tail(names), total + 1)

count_files(s, remote_dir) ==
    LET into == ftp_cwd(s, remote_dir) IN
    IF ~into.ok THEN [s |-> into.s, ret |-> 0, status |-> "returned"]
    ELSE LET resp == ftp_list(into.s)
             remote_items == list_directory_with_details(resp)
             walked == CountLoop(resp.s, remote_items.names, 0)
         IN IF walked.status # "returned" THEN walked
            ELSE LET up == ftp_cwd(walked.s, Rel(<<"..">>))
                 IN [s |-> up.s, ret |-> walked.ret,
                     status |-> IF up.ok THEN "returned" ELSE "error_perm"]

\* The modification time a file gets that has just been written.
NowTime == MaxTime + 1

\* Lines 66-111 of download_directory as main() calls it (pbar and total_files
\* are None).  made is the staging tree and merged the merged folder after
\* line 64.  With a snapshot that is not empty, line 76 calls is_directory
\* with one argument and raises TypeError before any entry is looked at;
\* lines 79-105 run for an empty snapshot only.  Nothing on these lines
\* writes to either tree.
DownloadWalk(s, remote_dir, made, merged) ==
    LET into == ftp_cwd(s, remote_dir)
    IN IF ~into.ok
       THEN [s |-> into.s, local |-> made, merged |-> merged,
             status |-> "returned", fetched |-> {}, skipped |-> {}]
       ELSE LET resp == ftp_list(into.s)
                remote_items == list_directory_with_details(resp)
            IN IF remote_items.names # << >>
               THEN [s |-> resp.s, local |-> made, merged |-> merged,
                     status |-> "TypeError", fetched |-> {}, skipped |-> {}]
               ELSE LET up == ftp_cwd(resp.s, Rel(<<"..">>))
                        at == ftp_pwd(up.s)
                    IN IF ~up.ok
                       THEN [s |-> up.s, local |-> made, merged |-> merged,
                             status |-> "error_perm",
                             fetched |-> {}, skipped |-> {}]
                       ELSE [s |-> at.s, local |-> made, merged |-> merged,
                             status |-> IF at.ok THEN "returned" ELSE "error_perm",
                             fetched |-> {}, skipped |-> {}]

\* The files a LIST in directory dir of a tree shows, as local paths.
ListedFiles(tree, dir) == {<<n>> : n \in {m \in FileNames : Append(dir, m) \in DOMAIN tree.files}}

\* A variant that has opened the local file of every listed file (line 97) by
\* the time line 76 raises.
download_directory_opening(s, remote_dir, local, merged) ==
    LET r == DownloadWalk(s, remote_dir, makedirs(local, << >>), merged)
        opened == [p \in ListedFiles(r.s.tree, r.s.cwd) |->
                      [content |-> "", mtime |-> NowTime]]
    IN IF r.status = "TypeError" THEN [r EXCEPT !.local.files = opened @@ @] ELSE r
\* A variant whose line 64 creates the merged folder as well.
download_directory_both(s, remote_dir, local, merged) ==
    DownloadWalk(s, remote_dir, makedirs(local, << >>), makedirs(merged, << >>))
\* download_directory(ftp, remote_dir, local_dir, merged_dir, ...), lines
\* 62-111: local is the staging tree, merged the merged folder; line 64
\* creates local_dir.
download_directory(s, remote_dir, local, merged) ==
    DownloadWalk(s, remote_dir, makedirs(local, << >>), merged)

\* ftp.mkd(path)
ftp_mkd(s, arg) ==
    LET target == Resolve(s.cwd, arg) IN
    IF \/ Rejects(s)
       \/ target = << >>
       \/ target \in s.tree.dirs
       \/ target \in DOMAIN s.tree.files
       \/ Parent(target) \notin s.tree.dirs
    THEN [ok |-> FALSE, s |-> Sent(s)]
    ELSE [ok |-> TRUE, s |-> [Sent(s) EXCEPT !.tree.dirs = @ \cup {target}]]

\* ftp.storbinary("STOR item", f): the file is written in the working
\* directory, with the server's clock as its modification time.
ftp_stor(s, item, file) ==
    IF Rejects(s) THEN [ok |-> FALSE, s |-> Sent(s)]
    ELSE LET q == Append(s.cwd, item)
             new == [content |-> file.content, mtime |-> NowTime]
         IN [ok |-> TRUE,
             s |-> [Sent(s) EXCEPT !.tree.files = (q :> new) @@ @,
                                   !.stored = Append(@, q)]]

\* ftp.voidcmd("MFMT <strftime of gmtime(local_mtime)> item").  A file's own
\* time is a whole unit the stamp carries exactly, so the server records t.
ftp_mfmt(s, item, t) ==
    LET q == Append(s.cwd, item) IN
    IF Rejects(s) \/ q \notin DOMAIN s.tree.files
    THEN [ok |-> FALSE, s |-> Sent(s)]
    ELSE [ok |-> TRUE, s |-> [Sent(s) EXCEPT !.tree.files[q].mtime = t]]

\* Lines 126-137 of upload_directory: enter remote_dir from "/", creating it
\* when it cannot be entered.
EnterOrCreate(s, remote_dir) ==
    LET root == ftp_cwd(s, Abs(<< >>))
        into == ftp_cwd(root.s, Rel(remote_dir))
        failed == IF root.ok THEN into.s ELSE root.s
        made == ftp_mkd(failed, Rel(remote_dir))
        again == ftp_cwd(made.s, Rel(remote_dir))
    IN IF root.ok /\ into.ok THEN [ok |-> TRUE, s |-> into.s]
       ELSE IF ~made.ok THEN [ok |-> FALSE, s |-> made.s]
            ELSE [ok |-> again.ok, s |-> again.s]

\* Lines 156-172 of upload_directory for one local file.  A name the snapshot
\* holds makes line 157 call .get on a float: AttributeError.
UploadFile(s, remote_files, local_path, item, file) ==
    IF item \in DOMAIN remote_files.mtime
    THEN [s |-> s, status |-> "AttributeError"]
    ELSE LET put == ftp_stor(s, item, file)
             stamp == ftp_mfmt(put.s, item, file.mtime)
             after == IF put.ok THEN stamp.s ELSE put.s
             sent == [local |-> local_path, cwd |-> s.cwd, ok |-> put.ok]
         IN [s |-> [after EXCEPT !.tried = Append(@, sent)], status |-> "returned"]

\* upload_directory(ftp, local_dir, remote_dir, ...), lines 124-177, and its
\* loop over os.listdir(local_dir).  merged is the local tree, local_dir a
\* directory path in it, remote_dir the path main() or the caller joined.
\* The local tree is only listed and read (lines 139, 151, 156, 168).
RECURSIVE upload_directory(_, _, _, _, _)
RECURSIVE UploadLoop(_, _, _, _, _, _, _)
UploadLoop(s, merged, local_dir, remote_dir, lorder, remote_files, names) ==
    IF names = << >> THEN [s |-> s, status |-> "returned"]
    ELSE LET item == Head(names)
             local_path == Append(local_dir, item)
         IN IF local_path \in merged.dirs
            THEN LET sub == upload_directory(s, merged, local_path,
                                             Append(remote_dir, item), lorder)
                     back == [dir |-> remote_dir, cwd |-> sub.s.cwd]
                     resumed == [sub.s EXCEPT !.resumed = Append(@, back)]
                 IN IF sub.status # "returned" THEN sub
                    ELSE UploadLoop(resumed, merged, local_dir, remote_dir, lorder,
                                    remote_files, Tail(names))
            ELSE IF local_path \in DOMAIN merged.files
                 THEN LET sent == UploadFile(s, remote_files, local_path, item,
                                             merged.files[local_path])
                      IN IF sent.status # "returned" THEN sent
                         ELSE UploadLoop(sent.s, merged, local_dir, remote_dir,
                                         lorder, remote_files, Tail(names))
                 ELSE UploadLoop(s, merged, local_dir, remote_dir, lorder,
                                 remote_files, Tail(names))

upload_directory(s, merged, local_dir, remote_dir, lorder) ==
    LET entered == EnterOrCreate(s, remote_dir) IN
    IF ~entered.ok THEN [s |-> entered.s, merged |-> merged, status |-> "returned"]
    ELSE IF local_dir \notin merged.dirs
         THEN [s |-> entered.s, merged |-> merged, status |-> "FileNotFoundError"]
         ELSE LET resp == ftp_list(entered.s)
                  remote_files == list_directory_with_details(resp)
                  walked == UploadLoop(resp.s, merged, local_dir, remote_dir, lorder,
                                       remote_files, lorder)
              IN IF walked.status # "returned"
                 THEN [s |-> walked.s, merged |-> merged, status |-> walked.status]
                 ELSE LET at == ftp_pwd(walked.s)
                      IN [s |-> at.s, merged |-> merged,
                          status |-> IF at.ok THEN "returned" ELSE "error_perm"]

\* ------------------------------------------------------------------- state
VARIABLES
    remote,      \* remote[i]: the tree endpoint i serves
    remote0,     \* the remote trees as they were in the initial state
    sess,        \* sess[i]: the working directory of the session to endpoint i
    staging,     \* staging[i]: the local tree /tmp/ftp_sync_server<i>
    canonical,   \* the merged folder
    canon0,      \* the merged folder as it was in the initial state
    lines,       \* the server's answer to the LIST under test
    items,       \* the snapshot list_directory_with_details returned
    nserv,       \* the number of servers on the command line
    pc,          \* where main() is
    run,         \* the number of the run of main()
    call,        \* the last call made and what it returned
    hist,        \* the calls made so far (in Spec: <<"main", r>> starts run r)
    faulty       \* whether the server rejected a command of one of them

vars == <<remote, remote0, sess, staging, canonical, canon0, lines, items,
          nserv, pc, run, call, hist, faulty>>

\* The commands of rej that a call which left session s was actually sent.
Hit(s, rej) == {k \in rej : k <= s.n}

NoCall == [op |-> "none"]
NoRemote == RemoteOf(NoTree)

\* The commands of one call the server may reject: none, or one of the first
\* MaxFault.
FaultSets == {{}} \cup {{k} : k \in 1..MaxFault}

\* SpecSync and Spec let the server reject one command in a behaviour.
OneFault == IF faulty THEN {{}} ELSE FaultSets

\* ------------------------------------------------- SpecMerge: merge calls
InitMerge ==
    /\ remote = [i \in Endpoints |-> NoRemote]
    /\ remote0 = remote
    /\ sess = [i \in Endpoints |-> LoginDir]
    /\ \E a \in LocalTrees("c1"), b \in LocalTrees("c2") :
          /\ WellFormed(a) /\ WellFormed(b)
          /\ staging = [i \in Endpoints |-> IF i = 1 THEN a ELSE b]
    /\ canonical \in {t \in LocalTrees("c0") : WellFormed(t)}
    /\ canon0 = canonical
    /\ lines = << >>
    /\ items = NoItems
    /\ nserv = 0
    /\ pc = "idle"
    /\ run = 0
    /\ call = NoCall
    /\ hist = << >>
    /\ faulty = FALSE

\* merge_directories(temp_dir_<i>, merged_folder, progress)
DoMerge(i) ==
    /\ \E r \in {merge_directories(staging[i], canonical)} :
          /\ canonical' = r.tree
          /\ call' = [op |-> "merge_directories", ep |-> i, copied |-> r.copied,
                      status |-> "returned"]
    /\ hist' = Append(hist, <<"merge", i>>)
    /\ UNCHANGED <<remote, remote0, sess, staging, canon0, lines, items, nserv, run,
                   faulty>>

MergeCall(i) == Len(hist) < MaxOps /\ DoMerge(i) /\ UNCHANGED pc

NextMerge == \E i \in Endpoints : MergeCall(i)

SpecMerge == InitMerge /\ [][NextMerge]_vars

\* ---------------------------------------------- SpecList: one LIST answer
InitList ==
    /\ remote = [i \in Endpoints |-> NoRemote]
    /\ remote0 = remote
    /\ sess = [i \in Endpoints |-> LoginDir]
    /\ staging = [i \in Endpoints |-> NoTree]
    /\ canonical = NoTree
    /\ canon0 = NoTree
    /\ lines \in SeqsUpTo(SampleLines, MaxLines)
    /\ items = NoItems
    /\ nserv = 0
    /\ pc = "idle"
    /\ run = 0
    /\ call = NoCall
    /\ hist = << >>
    /\ faulty = FALSE

\* list_directory_with_details(ftp) on a session whose LIST is answered with
\* `lines`, or rejected.
ListCall(rejected) ==
    /\ call = NoCall
    /\ items' = list_directory_with_details([rejected |-> rejected, lines |-> lines])
    /\ call' = [op |-> "list_directory_with_details", rejected |-> rejected,
                status |-> "returned"]
    /\ hist' = Append(hist, <<"list", 0>>)
    /\ UNCHANGED <<remote, remote0, sess, staging, canonical, canon0, lines,
                   nserv, pc, run, faulty>>

NextList == \E rejected \in BOOLEAN : ListCall(rejected)

SpecList == InitList /\ [][NextList]_vars

\* ------------------------- SpecProbe: one probe or one walk of a session
InitProbe ==
    /\ remote \in [Endpoints -> RemoteTrees("r1")]
    /\ remote[2] = NoRemote
    /\ remote0 = remote
    /\ sess \in [Endpoints -> remote[1].dirs]
    /\ sess[2] = LoginDir
    /\ staging = [i \in Endpoints |-> NoTree]
    /\ canonical = NoTree
    /\ canon0 = NoTree
    /\ lines = << >>
    /\ items = NoItems
    /\ nserv = 0
    /\ pc = "idle"
    /\ run = 0
    /\ call = NoCall
    /\ hist = << >>
    /\ faulty = FALSE

ProbeFrame == UNCHANGED <<remote, remote0, canon0, lines, items, nserv, pc, run>>

\* is_directory(ftp, item) from the session's working directory
ProbeCall(item, rej, order) ==
    /\ call = NoCall
    /\ \E r \in {is_directory(Session(remote[1], sess[1], rej, order), item)} :
          /\ sess' = [sess EXCEPT ![1] = r.s.cwd]
          /\ faulty' = (faulty \/ Hit(r.s, rej) # {})
          /\ call' = [op |-> "is_directory", cwd0 |-> sess[1], arg |-> <<item>>,
                      rej |-> Hit(r.s, rej), status |-> r.status, ret |-> r.ret]
    /\ hist' = Append(hist, <<"probe", 1>>)
    /\ UNCHANGED <<staging, canonical>>
    /\ ProbeFrame

\* The remote_dir arguments of a walk: the path main() passes, and the name of
\* a subdirectory as the recursion passes it.
WalkArgs == {RemoteDir, <<"savedata">>, <<"d">>}

\* count_files(ftp, remote_dir)
CountCall(remote_dir, rej, order) ==
    /\ call = NoCall
    /\ \E r \in {count_files(Session(remote[1], sess[1], rej, order), Rel(remote_dir))} :
          /\ sess' = [sess EXCEPT ![1] = r.s.cwd]
          /\ faulty' = (faulty \/ Hit(r.s, rej) # {})
          /\ call' = [op |-> "count_files", cwd0 |-> sess[1], arg |-> remote_dir,
                      rej |-> Hit(r.s, rej), status |-> r.status, ret |-> r.ret]
    /\ hist' = Append(hist, <<"count", 1>>)
    /\ UNCHANGED <<staging, canonical>>
    /\ ProbeFrame

\* download_directory(ftp, remote_dir, temp_dir_1, merged_folder, ...)
DownloadCall(remote_dir, rej, order) ==
    /\ call = NoCall
    /\ \E r \in {download_directory(Session(remote[1], sess[1], rej, order),
                                   Rel(remote_dir), staging[1], canonical)} :
          /\ sess' = [sess EXCEPT ![1] = r.s.cwd]
          /\ staging' = [staging EXCEPT ![1] = r.local]
          /\ canonical' = r.merged
          /\ faulty' = (faulty \/ Hit(r.s, rej) # {})
          /\ call' = [op |-> "download_directory", cwd0 |-> sess[1],
                      arg |-> remote_dir, rej |-> Hit(r.s, rej), status |-> r.status,
                      fetched |-> r.fetched, skipped |-> r.skipped]
    /\ hist' = Append(hist, <<"pull", 1>>)
    /\ ProbeFrame

NextProbe ==
    \/ \E item \in FileNames \cup DirNames, rej \in FaultSets, order \in Orders :
          ProbeCall(item, rej, order)
    \/ \E d \in WalkArgs, rej \in FaultSets, order \in Orders : CountCall(d, rej, order)
    \/ \E d \in WalkArgs, rej \in FaultSets, order \in Orders : DownloadCall(d, rej, order)

SpecProbe == InitProbe /\ [][NextProbe]_vars

\* ------------- SpecSync: pull, merge and push called on one endpoint
InitSync ==
    /\ remote \in [Endpoints -> StaleTrees("r1")]
    /\ remote[2] = NoRemote
    /\ remote0 = remote
    /\ sess = [i \in Endpoints |-> LoginDir]
    /\ staging = [i \in Endpoints |-> NoTree]
    /\ canonical \in {t \in LocalTrees("c0") : WellFormed(t)}
    /\ canon0 = canonical
    /\ lines = << >>
    /\ items = NoItems
    /\ nserv = 0
    /\ pc = "idle"
    /\ run = 0
    /\ call = NoCall
    /\ hist = << >>
    /\ faulty = FALSE

\* `with ftp_connect(...)` opens a new session in the login directory; the
\* one-server run of main() keeps one session from its pull to its push.
Connected(i) == IF nserv = 2 THEN LoginDir ELSE sess[i]

\* download_directory(ftp, remote_dir, temp_dir_<i>, merged_folder, ...), the
\* first call on a new session
DoPull(i, rej, order) ==
    /\ \E r \in {download_directory(Session(remote[i], LoginDir, rej, order),
                                   Rel(RemoteDir), staging[i], canonical)} :
          /\ sess' = [sess EXCEPT ![i] = r.s.cwd]
          /\ staging' = [staging EXCEPT ![i] = r.local]
          /\ canonical' = r.merged
          /\ faulty' = (faulty \/ Hit(r.s, rej) # {})
          /\ call' = [op |-> "download_directory", ep |-> i, cwd0 |-> LoginDir,
                      arg |-> RemoteDir, rej |-> Hit(r.s, rej), status |-> r.status,
                      fetched |-> r.fetched, skipped |-> r.skipped]
    /\ hist' = Append(hist, <<"pull", i>>)
    /\ UNCHANGED <<remote, remote0, canon0, lines, items, nserv, run>>

\* upload_directory(ftp, merged_folder, remote_dir, ...)
DoPush(i, rej, order) ==
    /\ \E r \in {upload_directory(Session(remote[i], Connected(i), rej, order),
                                 canonical, << >>, RemoteDir, order)} :
          /\ sess' = [sess EXCEPT ![i] = r.s.cwd]
          /\ remote' = [remote EXCEPT ![i] = r.s.tree]
          /\ canonical' = r.merged
          /\ faulty' = (faulty \/ Hit(r.s, rej) # {})
          /\ call' = [op |-> "upload_directory", ep |-> i, cwd0 |-> Connected(i),
                      arg |-> RemoteDir, rej |-> Hit(r.s, rej), status |-> r.status,
                      stored |-> r.s.stored, tried |-> r.s.tried,
                      resumed |-> r.s.resumed]
    /\ hist' = Append(hist, <<"push", i>>)
    /\ UNCHANGED <<remote0, staging, canon0, lines, items, nserv, run>>

SyncPull(rej, order) == Len(hist) < MaxCalls /\ DoPull(1, rej, order) /\ UNCHANGED pc
SyncMerge == Len(hist) < MaxCalls /\ DoMerge(1) /\ UNCHANGED pc
SyncPush(rej, order) == Len(hist) < MaxCalls /\ DoPush(1, rej, order) /\ UNCHANGED pc

NextSync ==
    \/ \E rej \in OneFault, order \in Orders : SyncPull(rej, order)
    \/ SyncMerge
    \/ \E rej \in OneFault, order \in Orders : SyncPush(rej, order)

SpecSync == InitSync /\ [][NextSync]_vars

\* -------------------------------------------------------- Spec: main()
Init ==
    /\ remote \in [Endpoints -> RemoteTrees("r1") \cup RemoteTrees("r2")]
    /\ \A i \in Endpoints :
          \A q \in DOMAIN remote[i].files :
              remote[i].files[q].content = (IF i = 1 THEN "r1" ELSE "r2")
    /\ nserv \in 1..3
    /\ nserv # 2 => remote[2] = NoRemote
    /\ nserv = 3 => remote[1] = NoRemote
    /\ remote0 = remote
    /\ sess = [i \in Endpoints |-> LoginDir]
    /\ staging = [i \in Endpoints |-> NoTree]
    /\ canonical \in {t \in LocalTrees("c0") : WellFormed(t)}
    /\ canon0 = canonical
    /\ lines = << >>
    /\ items = NoItems
    /\ pc = "start"
    /\ run = 1
    /\ call = NoCall
    /\ hist = << >>
    /\ faulty = FALSE

\* Lines 216-220, and ftp_connect for the first pull.
Start ==
    /\ pc = "start"
    /\ pc' = IF nserv \in {1, 2} THEN "pull1" ELSE "done"
    /\ sess' = [i \in Endpoints |-> LoginDir]
    /\ hist' = Append(hist, <<"main", run>>)
    /\ call' = NoCall
    /\ UNCHANGED <<remote, remote0, staging, canonical, canon0, lines, items,
                   nserv, run, faulty>>

\* One server after the other: pull, merge and push for the first, then for
\* the second.
AfterEach(step, i) ==
    IF step = "pull" THEN "merge" \o (IF i = 1 THEN "1" ELSE "2")
    ELSE IF step = "merge" THEN "push" \o (IF i = 1 THEN "1" ELSE "2")
         ELSE IF nserv = 2 /\ i = 1 THEN "pull2" ELSE "cleanup"
\* The position after a call of main() that returned.
After(step, i) ==
    IF nserv = 1
    THEN (IF step = "pull" THEN "merge1" ELSE IF step = "merge" THEN "push1"
          ELSE "cleanup")
    ELSE IF i = 1 THEN step \o "2"
         ELSE (IF step = "pull" THEN "merge1" ELSE IF step = "merge" THEN "push1"
               ELSE "cleanup")

\* Lines 233, 242, 247: an exception out of download_directory ends main().
Pull(i, rej, order) ==
    /\ pc = "pull" \o (IF i = 1 THEN "1" ELSE "2")
    /\ DoPull(i, rej, order)
    /\ pc' = IF call'.status = "returned" THEN After("pull", i) ELSE "crashed"

\* Lines 234, 249, 250
Merge(i) ==
    /\ pc = "merge" \o (IF i = 1 THEN "1" ELSE "2")
    /\ DoMerge(i)
    /\ pc' = After("merge", i)

\* Lines 235, 253, 256: an exception out of upload_directory ends main().
Push(i, rej, order) ==
    /\ pc = "push" \o (IF i = 1 THEN "1" ELSE "2")
    /\ DoPush(i, rej, order)
    /\ pc' = IF call'.status = "returned" THEN After("push", i) ELSE "crashed"

\* Lines 258-261: shutil.rmtree of both staging trees.
Cleanup ==
    /\ pc = "cleanup"
    /\ staging' = [i \in Endpoints |-> NoTree]
    /\ pc' = "done"
    /\ hist' = Append(hist, <<"rmtree", 0>>)
    /\ UNCHANGED <<remote, remote0, sess, canonical, canon0, lines, items, nserv,
                   run, call, faulty>>

\* The tool is run again, after a run that ended either way.
Rerun ==
    /\ pc \in {"done", "crashed"}
    /\ run < MaxRuns
    /\ run' = run + 1
    /\ pc' = "start"
    /\ UNCHANGED <<remote, remote0, sess, staging, canonical, canon0, lines, items,
                   nserv, call, hist, faulty>>

Next ==
    \/ Start
    \/ \E i \in Endpoints, rej \in OneFault, order \in Orders : Pull(i, rej, order)
    \/ \E i \in Endpoints : Merge(i)
    \/ \E i \in Endpoints, rej \in OneFault, order \in Orders : Push(i, rej, order)
    \/ Cleanup
    \/ Rerun

Spec == Init /\ [][Next]_vars

\* ================================================================== claims
Merged(i) == call.op = "merge_directories" /\ call.ep = i

\* The paths staged by both endpoints with different timestamps.
BothStaged ==
    {p \in DOMAIN staging[1].files \cap DOMAIN staging[2].files :
        staging[1].files[p].mtime # staging[2].files[p].mtime}

\* The copies of path p that take part in a two-endpoint merge.
Candidates(p) ==
    {staging[1].files[p], staging[2].files[p]}
        \cup (IF p \in DOMAIN canon0.files THEN {canon0.files[p]} ELSE {})

\* C1: merging staging tree i and then staging tree j leaves, at every path
\* staged by both with different timestamps, the same content and timestamp as
\* merging j and then i, and that is a copy with the greatest timestamp among
\* the two staged copies and the original canonical copy.
C1_MergeCommutes ==
    \A i \in Endpoints :
        LET j == 3 - i
            other == merge_directories(staging[i],
                                       merge_directories(staging[j], canon0).tree).tree
        IN hist = <<<<"merge", i>>, <<"merge", j>>>> =>
              \A p \in BothStaged :
                  /\ p \in DOMAIN canonical.files
                  /\ canonical.files[p] = other.files[p]
                  /\ canonical.files[p] \in Candidates(p)
                  /\ \A c \in Candidates(p) : c.mtime <= canonical.files[p].mtime

\* Tree 2 was merged first, tree 1 second, and at a path all three trees hold,
\* tree 2's copy (the newest) is the one in the canonical tree.
C1_Witness ==
    /\ hist = <<<<"merge", 2>>, <<"merge", 1>>>>
    /\ \E p \in BothStaged :
          /\ p \in DOMAIN canon0.files
          /\ canon0.files[p].mtime < staging[1].files[p].mtime
          /\ staging[1].files[p].mtime < staging[2].files[p].mtime
          /\ canonical.files[p] = staging[2].files[p]

\* C2: no merge_directories call lowers the modification time the canonical
\* tree records for a path, and no call removes a path from it.
C2_MergeMonotone ==
    [][/\ canonical.dirs \subseteq canonical'.dirs
       /\ \A p \in DOMAIN canonical.files :
             /\ p \in DOMAIN canonical'.files
             /\ canonical'.files[p].mtime >= canonical.files[p].mtime]_vars

\* A second merge has run whose source held an older copy of a canonical path.
C2_Witness ==
    /\ Len(hist) = 2
    /\ \E i \in Endpoints :
          /\ Merged(i)
          /\ \E p \in DOMAIN staging[i].files :
                /\ p \in DOMAIN canonical.files
                /\ staging[i].files[p].mtime < canonical.files[p].mtime

\* C5: merge_directories copies a source file over the canonical file at the
\* same relative path, content and timestamp, exactly when the canonical file
\* is absent or the source is strictly newer; otherwise the canonical file is
\* left as it was.
C5_DecisionRule ==
    [][\A i \in Endpoints :
          (call'.op = "merge_directories" /\ call'.ep = i) =>
              \A p \in DOMAIN staging[i].files :
                  LET newer == \/ p \notin DOMAIN canonical.files
                               \/ staging[i].files[p].mtime > canonical.files[p].mtime
                  IN /\ (p \in call'.copied) <=> newer
                     /\ newer => canonical'.files[p] = staging[i].files[p]
                     /\ ~newer => canonical'.files[p] = canonical.files[p]]_vars

\* A merge copied one file and, at a path where the timestamps were equal,
\* kept the canonical content.
C5_Witness ==
    \E i \in Endpoints :
        /\ Merged(i)
        /\ call.copied # {}
        /\ \E p \in DOMAIN staging[i].files \ call.copied :
              /\ staging[i].files[p].mtime = canonical.files[p].mtime
              /\ staging[i].files[p].content # canonical.files[p].content

\* C6: merge_directories removes no file and no directory of the canonical
\* tree, and a canonical file with no counterpart in the source keeps its
\* content and timestamp.
C6_MergeNeverDeletes ==
    [][\A i \in Endpoints :
          (call'.op = "merge_directories" /\ call'.ep = i) =>
              /\ \A d \in canonical.dirs : d \in canonical'.dirs
              /\ \A p \in DOMAIN canonical.files :
                    /\ p \in DOMAIN canonical'.files
                    /\ p \notin DOMAIN staging[i].files =>
                          canonical'.files[p] = canonical.files[p]]_vars

\* A merge copied a file while the canonical tree holds a file and a directory
\* the source does not have.
C6_Witness ==
    \E i \in Endpoints :
        /\ Merged(i)
        /\ call.copied # {}
        /\ \E p \in DOMAIN canonical.files :
              p \notin DOMAIN staging[i].files /\ canonical.files[p] = canon0.files[p]
        /\ \E d \in canonical.dirs : d \notin staging[i].dirs

\* The files endpoint 1 serves below RemoteDir, by their relative paths.
ServedAt(tree) == {p \in FilePaths : (RemoteDir \o p) \in DOMAIN tree.files}

\* C3: after a pull and the merge of what it staged, a second pull of the same
\* unchanged remote tree returns having fetched no file and skipped every
\* remote file.
C3_SecondPullSkipsAll ==
    (hist = <<<<"pull", 1>>, <<"merge", 1>>, <<"pull", 1>>>> /\ ~faulty) =>
        /\ call.status = "returned"
        /\ call.fetched = {}
        /\ call.skipped = ServedAt(remote[1])

\* C4: a remote file with modification time T that the canonical tree lacks or
\* holds in an older copy is, after pull, merge and push, in the canonical tree
\* with time T and on the remote with time T.
C4_RoundTripKeepsTime ==
    (hist = <<<<"pull", 1>>, <<"merge", 1>>, <<"push", 1>>>> /\ ~faulty) =>
        \A p \in ServedAt(remote0[1]) :
            LET T == remote0[1].files[RemoteDir \o p].mtime IN
            (p \notin DOMAIN canon0.files \/ canon0.files[p].mtime < T) =>
                /\ call.status = "returned"
                /\ p \in DOMAIN canonical.files
                /\ canonical.files[p].mtime = T
                /\ (RemoteDir \o p) \in DOMAIN remote[1].files
                /\ remote[1].files[RemoteDir \o p].mtime = T

\* C7: whatever the entry and whichever command the server rejects, the
\* session's working directory after is_directory is the one before it, and
\* the probe of a file returns FALSE.
C7_ProbeKeepsCwd ==
    call.op = "is_directory" =>
        /\ sess[1] = call.cwd0
        /\ (call.status = "returned"
               /\ (call.cwd0 \o call.arg) \in DOMAIN remote[1].files) => ~call.ret

\* C8: when a run of main() has ended, normally or by an exception, no staging
\* tree is left.
C8_StagingRemoved ==
    pc \in {"done", "crashed"} => \A i \in Endpoints : staging[i] = NoTree

\* C10: when count_files or download_directory has returned, the session's
\* working directory is the one it had when the call was made.
C10_WalkRestoresCwd ==
    (call.op \in {"count_files", "download_directory"} /\ call.status = "returned")
        => sess[1] = call.cwd0

Last(q) == q[Len(q)]
WellFormedLines == {k \in 1..Len(lines) : Len(split(lines[k])) >= 9}
ShortLines == {k \in 1..Len(lines) : Len(split(lines[k])) < 9}

\* C9: the snapshot of a listing holds exactly the last fields of its lines of
\* 9 or more fields: a shorter line adds nothing and stops nothing.
C9_ShortLinesDropped ==
    (call.op = "list_directory_with_details" /\ ~call.rejected) =>
        /\ call.status = "returned"
        /\ DOMAIN items.mtime = {Last(split(lines[k])) : k \in WellFormedLines}

\* A listing with a short line before a well-formed one was parsed: the short
\* line's name is not in the snapshot, the later line's name is.
C9_Witness ==
    /\ call.op = "list_directory_with_details" /\ ~call.rejected
    /\ \E k \in ShortLines, l \in WellFormedLines :
          /\ k < l
          /\ Last(split(lines[k])) \notin DOMAIN items.mtime
          /\ Last(split(lines[l])) \in DOMAIN items.mtime

\* C11: whenever a recursive call of upload_directory for a local subdirectory
\* has returned, the session's working directory is the remote directory of the
\* local directory being walked by the caller.
C11_PushRestoresCursor ==
    call.op = "upload_directory" =>
        \A k \in 1..Len(call.resumed) : call.resumed[k].cwd = call.resumed[k].dir

\* The files of a served tree whose listing line carries no hour:minute.
StaleAt(tree) == {p \in ServedAt(tree) : tree.files[RemoteDir \o p].mtime = 0}

\* C12: a pull in which no command is rejected fetches every remote file whose
\* listing timestamp does not parse, and skips none of them, whatever the
\* canonical tree holds and whichever calls came before.
C12_StaleAlwaysFetched ==
    (call.op = "download_directory" /\ call.rej = {}) =>
        \A p \in StaleAt(remote[call.ep]) :
            p \in call.fetched /\ p \notin call.skipped

\* The call just made is a push and no push came before it, so remote0 is
\* the tree it found on the server.
FirstPush ==
    /\ call.op = "upload_directory"
    /\ \A k \in 1..(Len(hist) - 1) : hist[k][1] # "push"

\* The push sent a STOR for the local file at relative path p.
Uploaded(p) == \E k \in 1..Len(call.tried) : call.tried[k].local = p

\* The snapshot list_directory_with_details takes in directory dir of a tree.
SnapshotOf(tree, dir) ==
    retrlines(ServerLines(tree, dir, CHOOSE o \in Orders : TRUE), NoItems)

\* The snapshot of the remote directory of the local file at p lacks its name
\* or records another time for it.
Differs(p) ==
    LET snap == SnapshotOf(remote0[1], RemoteDir \o Parent(p)).mtime
        name == p[Len(p)]
    IN name \notin DOMAIN snap \/ snap[name] # canonical.files[p].mtime

\* C13: a push in which no command is rejected uploads a local file exactly
\* when the remote directory's listing lacks its name or shows another
\* timestamp; a file with equal timestamps is not uploaded.
C13_UploadDecision ==
    (FirstPush /\ call.rej = {}) =>
        \A p \in DOMAIN canonical.files : Uploaded(p) <=> Differs(p)

\* The server rejected the STOR of a local file during the push.
StoreRejected == \E k \in 1..Len(call.tried) : ~call.tried[k].ok

\* C14: a push in which the server rejects the STOR of one file still returns
\* normally and has dealt with every local file: each one was sent, or was
\* left alone because the remote copy has the same timestamp.
C14_FailureIsolated ==
    (FirstPush /\ StoreRejected) =>
        /\ call.status = "returned"
        /\ \A p \in DOMAIN canonical.files : Uploaded(p) \/ ~Differs(p)

\* C15: no call of download_directory and no call of upload_directory changes
\* the canonical tree: its directories, its paths, and every file's content
\* and timestamp are after the call what they were before it.
C15_OnlyMergeWrites ==
    [][call'.op \in {"download_directory", "upload_directory"} =>
          canonical' = canonical]_vars

\* A pull created the staging tree and a push then stored a file of the
\* canonical tree on the server; the canonical tree is as it was at the start.
C15_Witness ==
    /\ hist = <<<<"pull", 1>>, <<"push", 1>>>>
    /\ staging[1] = EmptyTree
    /\ call.stored # << >>
    /\ DOMAIN canonical.files # {}
    /\ canonical = canon0

\* C16: when the pull of a run for an endpoint is about to start, in the first
\* run or in a run after one that ended normally or by an exception, the
\* endpoint's staging tree holds no file.
C16_StagingFresh ==
    \A i \in Endpoints :
        pc = "pull" \o (IF i = 1 THEN "1" ELSE "2") => DOMAIN staging[i].files = {}

\* The second run is about to pull from endpoint 1 after a first run that ended
\* by an exception and left the staging directory behind.
C16_Witness ==
    /\ run = 2
    /\ pc = "pull1"
    /\ staging[1] = EmptyTree

\* The calls made so far by the current run of main().
RECURSIVE SinceMain(_)
SinceMain(h) ==
    IF h = << >> \/ h[Len(h)][1] = "main" THEN << >>
    ELSE Append(SinceMain(SubSeq(h, 1, Len(h) - 1)), h[Len(h)])

\* The calls of a run with one server and with two, in the order of main(),
\* up to the removal of the staging trees.
PhaseOrder ==
    IF nserv = 1
    THEN <<<<"pull", 1>>, <<"merge", 1>>, <<"push", 1>>, <<"rmtree", 0>>>>
    ELSE <<<<"pull", 1>>, <<"pull", 2>>, <<"merge", 1>>, <<"merge", 2>>,
           <<"push", 1>>, <<"push", 2>>, <<"rmtree", 0>>>>

\* C17: the calls a run has made are an initial part of pull 1, pull 2,
\* merge 1, merge 2, push 1, push 2 (of pull, merge, push with one server): no
\* merge before both pulls, no push before both merges; and the canonical tree
\* a push has read holds every staged path in a copy at least as new.
C17_PhaseOrder ==
    nserv \in {1, 2} =>
        /\ Len(SinceMain(hist)) <= Len(PhaseOrder)
        /\ SinceMain(hist) = SubSeq(PhaseOrder, 1, Len(SinceMain(hist)))
        /\ call.op = "upload_directory" =>
              \A i \in 1..nserv : \A p \in DOMAIN staging[i].files :
                  /\ p \in DOMAIN canonical.files
                  /\ canonical.files[p].mtime >= staging[i].files[p].mtime

\* A run with two servers has made all its calls, and its last push stored a
\* file of the canonical tree on the second server.
C17_Witness ==
    /\ nserv = 2
    /\ SinceMain(hist) = PhaseOrder
    /\ call.op = "upload_directory" /\ call.ep = 2
    /\ call.stored # << >>

\* C19: every STOR a push sends for the local file at relative path p is sent
\* while the working directory is the remote directory of p's directory, so
\* that the file is written at RemoteDir \o p.
C19_PushKeepsPaths ==
    call.op = "upload_directory" =>
        \A k \in 1..Len(call.tried) :
            call.tried[k].cwd = RemoteDir \o Parent(call.tried[k].local)

\* The first run, with one server, made all its calls and ended normally.
FirstRunComplete ==
    /\ nserv = 1
    /\ Len(hist) >= 5
    /\ SubSeq(hist, 1, 5) = <<<<"main", 1>>>> \o PhaseOrder

\* The second run has started and made a call.
SecondRunCalled == Len(hist) > 6 /\ hist[6] = <<"main", 2>>

\* C20: after a complete run with one server in which no command was
\* rejected, every file of the canonical tree is on the remote at the same
\* relative path with the same timestamp; and a second run right after it
\* fetches nothing and sends no STOR.
C20_FixedPoint ==
    (FirstRunComplete /\ ~faulty) =>
        /\ \A p \in DOMAIN canonical.files :
              /\ (RemoteDir \o p) \in DOMAIN remote[1].files
              /\ remote[1].files[RemoteDir \o p].mtime = canonical.files[p].mtime
        /\ (SecondRunCalled /\ call.op = "download_directory") => call.fetched = {}
        /\ (SecondRunCalled /\ call.op = "upload_directory") => call.tried = << >>

====
